---- MODULE Spec2Model ----
(***************************************************************************)
(* TRACER framework: the case/path data model (tracer.py, api.py) and its  *)
(* storage backends (storage/json_storage.py, storage/mongo_storage_sync.py*)
(* ).  Python dicts are functions with string domains, lists are           *)
(* sequences, datetime.now() is the clock `now` (one unit = one second).   *)
(***************************************************************************)
EXTENDS Integers, Sequences, FiniteSets, TLC

VARIABLES
    backend,   \* which StorageInterface the process holds: "json" | "mongo"
    fs,        \* the files of the working directory: file name -> content
    mongo,     \* the MongoStorageSync object: client, db, _initialized
    server,    \* the MongoDB server: reachable?, cases and logs collections
    now,       \* the wall clock, in seconds
    cli,       \* the CLI's NetworkPathAnalyzer and the prompt it waits at
    last,      \* the last call made, its arguments and what it returned
    saved,     \* per case id: the document of the last save_case that
               \* returned True (NoDoc: none yet; Stale: one failed since)
    threads,   \* the threads inside MongoStorageSync: the holder of
               \* self._lock and each thread's position in its operation
    callers    \* concurrent owners of a case: each one's in-memory copy

vars == <<backend, fs, mongo, server, now, cli, last, saved, threads,
          callers>>

----------------------------------------------------------------------------
\* Bounds of the model

MaxClock == 1      \* the clock runs 0..MaxClock
MaxLog == 1        \* a log channel holds at most MaxLog entries
MaxPath == 3       \* the CLI stops adding at MaxPath path entries
MaxCaseLog == 3    \* an analyzer's log file holds at most MaxCaseLog entries
MaxRuns == 2       \* the command line tool is run at most MaxRuns times

----------------------------------------------------------------------------
\* Python values

EmptyDict == [k \in {} |-> ""]

\* dict.get(k, default)
Get(d, k, default) == IF k \in DOMAIN d THEN d[k] ELSE default

\* d[k] = v
DictSet(d, k, v) == [x \in DOMAIN d \cup {k} |-> IF x = k THEN v ELSE d[x]]

\* d.update(e)
DictUpdate(d, e) ==
    [x \in DOMAIN d \cup DOMAIN e |-> IF x \in DOMAIN e THEN e[x] ELSE d[x]]

\* list.insert(i, x): before index i (0-based); past the end it appends,
\* a negative i counts from the end
ListInsert(s, i, x) ==
    LET n == Len(s)
        j == IF i < 0 THEN (IF n + i < 0 THEN 0 ELSE n + i)
             ELSE IF i > n THEN n ELSE i
    IN  SubSeq(s, 1, j) \o <<x>> \o SubSeq(s, j + 1, n)

\* the elements of a list
Elems(s) == {s[i] : i \in 1..Len(s)}

\* list.count(x)
Count(s, x) == Cardinality({i \in 1..Len(s) : s[i] = x})

----------------------------------------------------------------------------
\* Files and JSON text

DbFile == "tracer_database.json"

\* tracer.py:39  f"tracer_log_{now:%Y%m%d_%H%M%S}.json"
LogFilename(t) == "tracer_log_" \o ToString(t) \o ".json"

\* tracer.py:40  f"CASE_{now:%Y%m%d_%H%M%S}"
CaseIdAt(t) == "CASE_" \o ToString(t)

Clock == 0..MaxClock
Files == {DbFile} \cup {LogFilename(t) : t \in Clock}

Absent == [kind |-> "absent"]
\* a file opened with 'w' (truncated) whose json.dump did not complete
Partial == [kind |-> "partial"]

\* json.dump(v, f): the text of v
json_dump(v) == [kind |-> "json", value |-> v]

\* json.load(f) succeeds only on a complete JSON text
json_loadable(c) == c.kind = "json"
json_load(c) == c.value

\* os.path.exists
path_exists(f, name) == f[name].kind # "absent"

\* Transient I/O faults a call can meet: none; the read fails; open(..,'w')
\* fails; the write fails after open(..,'w') has truncated the file.
Faults == {"none", "read", "open_w", "dump"}

----------------------------------------------------------------------------
\* JsonStorage (storage/json_storage.py)

Skeleton ==
    [initial_detection |-> EmptyDict,
     network_elements |-> EmptyDict,
     path_sequence |-> <<>>]

\* mutant: the database document is written whether or not the file exists
JsonInitializeDatabase_Always(f, t, fault) ==
    [fs |-> [f EXCEPT ![DbFile] =
                json_dump([cases |-> EmptyDict,
                           metadata |-> [created |-> t, version |-> "1.0"]])],
     raised |-> FALSE]

JsonInitializeDatabase(f, t, fault) ==
    IF ~path_exists(f, DbFile)
    THEN LET initial_db ==
                 [cases |-> EmptyDict,
                  metadata |-> [created |-> t, version |-> "1.0"]]
         IN  IF fault = "open_w"
             THEN [fs |-> f, raised |-> TRUE]
             ELSE IF fault = "dump"
             THEN [fs |-> [f EXCEPT ![DbFile] = Partial], raised |-> TRUE]
             ELSE [fs |-> [f EXCEPT ![DbFile] = json_dump(initial_db)],
                   raised |-> FALSE]
    ELSE [fs |-> f, raised |-> FALSE]

\* mutant: a save that merges the new document into the stored one
JsonSaveCase_Merge(f, case_id, case_data, fault) ==
    IF fault # "none" \/ ~json_loadable(f[DbFile])
    THEN [fs |-> f, ret |-> FALSE]
    ELSE LET old == json_load(f[DbFile])
             before == Get(old.cases, case_id, EmptyDict)
             old_path == Get(before, "path_sequence", <<>>)
             IsNew(name) == name \notin Elems(old_path)
             merged ==
                 [case_data EXCEPT
                     !.path_sequence = old_path \o SelectSeq(@, IsNew),
                     !.network_elements =
                         DictUpdate(Get(before, "network_elements",
                                        EmptyDict), @)]
         IN  [fs |-> [f EXCEPT ![DbFile] =
                         json_dump([old EXCEPT !.cases =
                                        DictSet(@, case_id, merged)])],
              ret |-> TRUE]

JsonSaveCase(f, case_id, case_data, fault) ==
    IF fault = "read" \/ ~json_loadable(f[DbFile])
    THEN [fs |-> f, ret |-> FALSE]
    ELSE LET old == json_load(f[DbFile])
         IN  IF "cases" \notin DOMAIN old            \* KeyError
             THEN [fs |-> f, ret |-> FALSE]
             ELSE LET db_data ==
                          [old EXCEPT !.cases = DictSet(@, case_id, case_data)]
                  IN  IF fault = "open_w"
                      THEN [fs |-> f, ret |-> FALSE]
                      ELSE IF fault = "dump"
                      THEN [fs |-> [f EXCEPT ![DbFile] = Partial],
                            ret |-> FALSE]
                      ELSE [fs |-> [f EXCEPT ![DbFile] = json_dump(db_data)],
                            ret |-> TRUE]

JsonLoadCase(f, case_id, fault) ==
    IF fault = "read" \/ ~json_loadable(f[DbFile])
    THEN Skeleton
    ELSE LET cases == Get(json_load(f[DbFile]), "cases", EmptyDict)
         IN  IF case_id \in DOMAIN cases
             THEN LET stored_case == cases[case_id]
                  IN  [initial_detection |->
                           Get(stored_case, "initial_detection", EmptyDict),
                       network_elements |->
                           Get(stored_case, "network_elements", EmptyDict),
                       path_sequence |->
                           Get(stored_case, "path_sequence", <<>>)]
             ELSE Skeleton

\* list(db_data.get("cases", {}).keys()); the order of the list is not
\* modelled: callers test membership and print it
JsonListCases(f, fault) ==
    IF ~path_exists(f, DbFile)
    THEN {}
    ELSE IF fault = "read" \/ ~json_loadable(f[DbFile])
    THEN {}
    ELSE DOMAIN Get(json_load(f[DbFile]), "cases", EmptyDict)

\* mutant: looks the id up in the document's top level, not in "cases"
JsonCaseExists_TopLevel(f, case_id, fault) ==
    IF fault = "read" \/ ~json_loadable(f[DbFile])
    THEN FALSE
    ELSE case_id \in DOMAIN json_load(f[DbFile])

JsonCaseExists(f, case_id, fault) ==
    IF fault = "read" \/ ~json_loadable(f[DbFile])
    THEN FALSE
    ELSE case_id \in DOMAIN Get(json_load(f[DbFile]), "cases", EmptyDict)

JsonWriteLogEntry(f, log_filename, entry, fault) ==
    IF path_exists(f, log_filename)
       /\ (fault = "read" \/ ~json_loadable(f[log_filename]))
    THEN [fs |-> f, ret |-> FALSE]
    ELSE LET log_data == IF path_exists(f, log_filename)
                         THEN json_load(f[log_filename])
                         ELSE [tracer_log |-> <<>>]
         IN  IF "tracer_log" \notin DOMAIN log_data      \* KeyError
             THEN [fs |-> f, ret |-> FALSE]
             ELSE LET new_log ==
                          [log_data EXCEPT !.tracer_log = Append(@, entry)]
                  IN  IF fault = "open_w"
                      THEN [fs |-> f, ret |-> FALSE]
                      ELSE IF fault = "dump"
                      THEN [fs |-> [f EXCEPT ![log_filename] = Partial],
                            ret |-> FALSE]
                      ELSE [fs |-> [f EXCEPT ![log_filename] =
                                        json_dump(new_log)],
                            ret |-> TRUE]

----------------------------------------------------------------------------
\* MongoStorageSync (storage/mongo_storage_sync.py), one caller at a time

\* __init__: no client, not initialized
MongoNew == [client |-> FALSE, db |-> FALSE, initialized |-> FALSE]

\* The ping decides: an unreachable server raises ConnectionError after the
\* client was closed and dropped.
MongoInitializeDatabase(m, srv) ==
    IF m.initialized
    THEN [mongo |-> m, raised |-> FALSE]
    ELSE IF srv.up
    THEN [mongo |-> [client |-> TRUE, db |-> TRUE, initialized |-> TRUE],
          raised |-> FALSE]
    ELSE [mongo |-> [client |-> FALSE, db |-> TRUE, initialized |-> FALSE],
          raised |-> TRUE]

\* `if not self._initialized: self.initialize_database()`
MongoEnsure(m, srv) ==
    IF ~m.initialized
    THEN MongoInitializeDatabase(m, srv)
    ELSE [mongo |-> m, raised |-> FALSE]

MongoSaveCase(m, srv, case_id, case_data, t) ==
    LET e == MongoEnsure(m, srv)
        document == [case_id |-> case_id, timestamp |-> t, data |-> case_data]
    IN  IF e.raised \/ ~srv.up
        THEN [mongo |-> e.mongo, server |-> srv, ret |-> FALSE]
        ELSE [mongo |-> e.mongo,
              server |-> [srv EXCEPT !.cases = DictSet(@, case_id, document)],
              ret |-> TRUE]

MongoLoadCase(m, srv, case_id) ==
    LET e == MongoEnsure(m, srv)
    IN  IF e.raised \/ ~srv.up
        THEN [mongo |-> e.mongo, ret |-> EmptyDict]
        ELSE [mongo |-> e.mongo,
              ret |-> IF case_id \in DOMAIN srv.cases
                      THEN srv.cases[case_id].data
                      ELSE EmptyDict]

MongoListCases(m, srv) ==
    LET e == MongoEnsure(m, srv)
    IN  IF e.raised \/ ~srv.up
        THEN [mongo |-> e.mongo, ret |-> {}]
        ELSE [mongo |-> e.mongo,
              ret |-> {srv.cases[k].case_id : k \in DOMAIN srv.cases}]

MongoCaseExists(m, srv, case_id) ==
    LET e == MongoEnsure(m, srv)
    IN  IF e.raised \/ ~srv.up
        THEN [mongo |-> e.mongo, ret |-> FALSE]
        ELSE [mongo |-> e.mongo,
              ret |-> Cardinality({k \in DOMAIN srv.cases :
                                      srv.cases[k].case_id = case_id}) > 0]

MongoWriteLogEntry(m, srv, log_filename, entry, t) ==
    LET e == MongoEnsure(m, srv)
        log_document ==
            [case_id |-> Get(entry, "case_id", "unknown"),
             log_filename |-> log_filename,
             timestamp |-> t,
             entry |-> entry]
    IN  IF e.raised \/ ~srv.up
        THEN [mongo |-> e.mongo, server |-> srv, ret |-> FALSE]
        ELSE [mongo |-> e.mongo,
              server |-> [srv EXCEPT !.logs = Append(@, log_document)],
              ret |-> TRUE]

\* mutant: a close that drops the client and leaves _initialized set
MongoClose_KeepsFlag(m) ==
    IF m.client
    THEN [client |-> FALSE, db |-> m.db, initialized |-> m.initialized]
    ELSE m

MongoClose(m) ==
    IF m.client
    THEN [client |-> FALSE, db |-> m.db, initialized |-> FALSE]
    ELSE m

----------------------------------------------------------------------------
\* The storage backend as its callers drive it (StorageInterface,
\* storage/base.py): one call at a time on the backend the process selected.

\* `saved` before any save_case of the id returned True
NoDoc == [none |-> TRUE]
\* `saved` once a save_case of the id returned False after one returned True
Stale == [stale |-> TRUE]

\* {threat_type, source_ip, destination_ip} as tracer.py:322 builds it
Detection(threat) ==
    [threat_type |-> threat,
     source_ip |-> "10.0.0.5",
     destination_ip |-> "10.0.0.99"]

\* an element record as tracer.py:138 builds it
ElementRecord(type, movement, position) ==
    [type |-> type,
     source_info |-> EmptyDict,
     destination_info |-> EmptyDict,
     additional_data |-> <<>>,
     movement_type |-> movement,
     path_position |-> position]

\* Case ids and documents handed to save_case directly
StoreIds == {"CASE_A", "CASE_B"}

StoreDocs ==
    {[initial_detection |-> Detection("SQL Injection"),
      network_elements |->
          [FW1 |-> ElementRecord("firewall", "direct_traversal", 1)],
      path_sequence |-> <<"FW1">>,
      description |-> "first"],
     [initial_detection |-> Detection("SQL Injection"),
      network_elements |->
          [FW1 |-> ElementRecord("firewall", "direct_traversal", 1)],
      path_sequence |-> <<"FW1">>,
      description |-> "second"],
     [initial_detection |-> Detection("Malware C2"),
      network_elements |-> EmptyDict,
      path_sequence |-> <<>>]}

StoreChannels == {LogFilename(0)}

AllIds == StoreIds \cup {CaseIdAt(t) : t \in Clock}

\* the faults a call can meet on the backend in use
FaultsOf(b) == IF b = "json" THEN Faults ELSE {"none"}

ServerNew == [up |-> TRUE, cases |-> EmptyDict, logs |-> <<>>]

\* entries already in a log channel
LogLen(b, f, srv, log_filename) ==
    IF b = "json"
    THEN IF json_loadable(f[log_filename])
            /\ "tracer_log" \in DOMAIN json_load(f[log_filename])
         THEN Len(json_load(f[log_filename]).tracer_log)
         ELSE 0
    ELSE Len(srv.logs)

\* storage.initialize_database()
initialize_database(b, f, m, srv, t, fault) ==
    IF b = "json"
    THEN LET r == JsonInitializeDatabase(f, t, fault)
         IN  [fs |-> r.fs, mongo |-> m, raised |-> r.raised]
    ELSE LET r == MongoInitializeDatabase(m, srv)
         IN  [fs |-> f, mongo |-> r.mongo, raised |-> r.raised]

\* storage.save_case(case_id, case_data)
save_case(b, f, m, srv, case_id, case_data, t, fault) ==
    IF b = "json"
    THEN LET r == JsonSaveCase(f, case_id, case_data, fault)
         IN  [fs |-> r.fs, mongo |-> m, server |-> srv, ret |-> r.ret]
    ELSE LET r == MongoSaveCase(m, srv, case_id, case_data, t)
         IN  [fs |-> f, mongo |-> r.mongo, server |-> r.server, ret |-> r.ret]

\* storage.load_case(case_id)
load_case(b, f, m, srv, case_id, fault) ==
    IF b = "json"
    THEN [mongo |-> m, ret |-> JsonLoadCase(f, case_id, fault)]
    ELSE MongoLoadCase(m, srv, case_id)

\* storage.list_cases()
list_cases(b, f, m, srv, fault) ==
    IF b = "json"
    THEN [mongo |-> m, ret |-> JsonListCases(f, fault)]
    ELSE MongoListCases(m, srv)

\* storage.case_exists(case_id)
case_exists(b, f, m, srv, case_id, fault) ==
    IF b = "json"
    THEN [mongo |-> m, ret |-> JsonCaseExists(f, case_id, fault)]
    ELSE MongoCaseExists(m, srv, case_id)

\* storage.write_log_entry(log_filename, entry)
write_log_entry(b, f, m, srv, log_filename, entry, t, fault) ==
    IF b = "json"
    THEN LET r == JsonWriteLogEntry(f, log_filename, entry, fault)
         IN  [fs |-> r.fs, mongo |-> m, server |-> srv, ret |-> r.ret]
    ELSE LET r == MongoWriteLogEntry(m, srv, log_filename, entry, t)
         IN  [fs |-> f, mongo |-> r.mongo, server |-> r.server, ret |-> r.ret]

\* the bookkeeping of `saved` after save_case(case_id, case_data) returned ret
Saved(sv, case_id, case_data, ret) ==
    [sv EXCEPT ![case_id] = IF ret THEN case_data
                            ELSE IF @ = NoDoc THEN NoDoc ELSE Stale]

\* the document stored under case_id (flat file: cases[case_id]; indexed
\* store: the `data` of the case's document), NoDoc when there is none
StoredDoc(b, f, srv, case_id) ==
    IF b = "json"
    THEN IF json_loadable(f[DbFile])
            /\ case_id \in DOMAIN Get(json_load(f[DbFile]), "cases", EmptyDict)
         THEN json_load(f[DbFile]).cases[case_id]
         ELSE NoDoc
    ELSE IF case_id \in DOMAIN srv.cases
         THEN srv.cases[case_id].data
         ELSE NoDoc

\* a single caller: no thread inside the backend, no second owner
NoThreads == [lock |-> 0]
NoCallers == <<>>

\* no analyzer yet; `run` counts the runs of the tool
CliIdle == [pc |-> "none", run |-> 0]

InitStorage ==
    /\ backend \in {"json", "mongo"}
    /\ fs = [n \in Files |-> Absent]
    /\ mongo = MongoNew
    /\ server = ServerNew
    /\ now = 0
    /\ cli = CliIdle
    /\ last = [op |-> "none"]
    /\ saved = [i \in AllIds |-> NoDoc]
    /\ threads = NoThreads
    /\ callers = NoCallers

StInitialize ==
    \E fault \in FaultsOf(backend) \ {"read"} :
        LET r == initialize_database(backend, fs, mongo, server, now, fault)
        IN  /\ fs' = r.fs
            /\ mongo' = r.mongo
            /\ last' = [op |-> "initialize_database", raised |-> r.raised]
            /\ UNCHANGED <<backend, server, now, cli, saved, threads, callers>>

StSaveCase ==
    \E case_id \in StoreIds, case_data \in StoreDocs,
       fault \in FaultsOf(backend) :
        LET r == save_case(backend, fs, mongo, server, case_id, case_data,
                           now, fault)
        IN  /\ fs' = r.fs
            /\ mongo' = r.mongo
            /\ server' = r.server
            /\ saved' = Saved(saved, case_id, case_data, r.ret)
            /\ last' = [op |-> "save_case", id |-> case_id, ret |-> r.ret,
                        before |-> saved[case_id]]
            /\ UNCHANGED <<backend, now, cli, threads, callers>>

StLoadCase ==
    \E case_id \in StoreIds, fault \in FaultsOf(backend) \ {"open_w", "dump"} :
        LET r == load_case(backend, fs, mongo, server, case_id, fault)
        IN  /\ mongo' = r.mongo
            /\ last' = [op |-> "load_case", id |-> case_id, ret |-> r.ret]
            /\ UNCHANGED <<backend, fs, server, now, cli, saved,
                           threads, callers>>

StListCases ==
    \E fault \in FaultsOf(backend) \ {"open_w", "dump"} :
        LET r == list_cases(backend, fs, mongo, server, fault)
        IN  /\ mongo' = r.mongo
            /\ last' = [op |-> "list_cases", ret |-> r.ret]
            /\ UNCHANGED <<backend, fs, server, now, cli, saved,
                           threads, callers>>

StCaseExists ==
    \E case_id \in StoreIds, fault \in FaultsOf(backend) \ {"open_w", "dump"} :
        LET r == case_exists(backend, fs, mongo, server, case_id, fault)
        IN  /\ mongo' = r.mongo
            /\ last' = [op |-> "case_exists", id |-> case_id, ret |-> r.ret]
            /\ UNCHANGED <<backend, fs, server, now, cli, saved,
                           threads, callers>>

StWriteLogEntry ==
    \E log_filename \in StoreChannels, fault \in FaultsOf(backend) :
        LET entry == [timestamp |-> now, action |-> "analysis_started",
                      data |-> EmptyDict]
            r == write_log_entry(backend, fs, mongo, server, log_filename,
                                 entry, now, fault)
        IN  /\ r.ret => LogLen(backend, fs, server, log_filename) < MaxLog
            /\ fs' = r.fs
            /\ mongo' = r.mongo
            /\ server' = r.server
            /\ last' = [op |-> "write_log_entry", channel |-> log_filename,
                        entry |-> entry, ret |-> r.ret]
            /\ UNCHANGED <<backend, now, cli, saved, threads, callers>>

\* MongoStorageSync.close()
StClose ==
    /\ backend = "mongo"
    /\ mongo' = MongoClose(mongo)
    /\ last' = [op |-> "close"]
    /\ UNCHANGED <<backend, fs, server, now, cli, saved, threads, callers>>

\* the environment: the database server becomes unreachable, or reachable
ServerToggle ==
    /\ backend = "mongo"
    /\ server' = [server EXCEPT !.up = ~@]
    /\ UNCHANGED <<backend, fs, mongo, now, cli, last, saved,
                   threads, callers>>

\* the environment: a second passes
Tick ==
    /\ now < MaxClock
    /\ now' = now + 1
    /\ UNCHANGED <<backend, fs, mongo, server, cli, last, saved,
                   threads, callers>>

NextStorage ==
    \/ StInitialize
    \/ StSaveCase
    \/ StLoadCase
    \/ StListCases
    \/ StCaseExists
    \/ StWriteLogEntry
    \/ StClose
    \/ ServerToggle
    \/ Tick

SpecStorage == InitStorage /\ [][NextStorage]_vars

----------------------------------------------------------------------------
\* NetworkPathAnalyzer (tracer.py)

\* the three handles save/log calls thread through
Store(f, m, srv) == [fs |-> f, mongo |-> m, server |-> srv]

\* __init__ (tracer.py:26-40), before the storage calls
AnalyzerNew(t) ==
    [analysis |->
         [timestamp |-> t,
          initial_detection |-> EmptyDict,
          enrichment_levels |-> <<>>,
          network_elements |-> EmptyDict,
          path_sequence |-> <<>>],
     log_filename |-> LogFilename(t),
     case_id |-> CaseIdAt(t)]

\* write_to_log(action, data): the result of write_log_entry is dropped
write_to_log(b, st, a, action, data, t) ==
    LET log_entry == [timestamp |-> t, action |-> action, data |-> data]
        r == write_log_entry(b, st.fs, st.mongo, st.server, a.log_filename,
                             log_entry, t, "none")
    IN  Store(r.fs, r.mongo, r.server)

\* the document save_case_to_db builds (tracer.py:248-255)
CaseData(a, t) ==
    [case_id |-> a.case_id,
     timestamp |-> a.analysis.timestamp,
     initial_detection |-> a.analysis.initial_detection,
     network_elements |-> a.analysis.network_elements,
     path_sequence |-> a.analysis.path_sequence,
     last_updated |-> t]

\* save_case_to_db(): the result of save_case is dropped by the caller; it
\* is kept here for the bookkeeping of `saved`
save_case_to_db(b, st, a, t, fault) ==
    LET r == save_case(b, st.fs, st.mongo, st.server, a.case_id,
                       CaseData(a, t), t, fault)
    IN  [store |-> Store(r.fs, r.mongo, r.server), ret |-> r.ret]

\* insertion points whose array index is the point number itself
display_current_path_PointAsIndex(analysis) ==
    LET path_sequence == Get(analysis, "path_sequence", <<>>)
    IN  [point_num \in 1..(Len(path_sequence) + 1) |->
            IF point_num = 1
            THEN [position |-> 1, type |-> "after_source"]
            ELSE [position |-> point_num, type |-> "after_element",
                  element |-> path_sequence[point_num - 1]]]

\* mutant: one insertion point more than the path has places
display_current_path_ExtraPoint(analysis) ==
    LET path_sequence == Get(analysis, "path_sequence", <<>>)
    IN  [point_num \in 1..(Len(path_sequence) + 2) |->
            IF point_num = 1
            THEN [position |-> 0, type |-> "after_source"]
            ELSE [position |-> point_num - 1, type |-> "after_element"]]

\* display_current_path(): the insertion points it returns
display_current_path(analysis) ==
    LET path_sequence == Get(analysis, "path_sequence", <<>>)
    IN  [point_num \in 1..(Len(path_sequence) + 1) |->
            IF point_num = 1
            THEN [position |-> 0, type |-> "after_source"]
            ELSE [position |-> point_num - 1, type |-> "after_element",
                  element |-> path_sequence[point_num - 1]]]

\* What the user may type at a position prompt: the numbers in and around
\* the valid range, and a word.
PositionInputs == {ToString(k) : k \in 0..(MaxPath + 2)} \cup {"x"}

\* int(s): the number a decimal text denotes; ValueError (IsInt false) for
\* any other text
IsInt(s) == \E k \in 0..(MaxPath + 2) : ToString(k) = s
int(s) == CHOOSE k \in 0..(MaxPath + 2) : ToString(k) = s

\* `position = int(choice)` without ValueError and `position in
\* insertion_points` (tracer.py:118-125, 199-201)
ValidPoint(choice, analysis) ==
    IF IsInt(choice)
    THEN int(choice) \in DOMAIN display_current_path(analysis)
    ELSE FALSE

\* "lateral_movement" if movement_type.startswith("lateral") (tracer.py:134)
MovementType(typed) ==
    IF typed \in {"lateral", "lateral movement"}
    THEN "lateral_movement"
    ELSE "direct_traversal"

\* tracer.py:136-149: register the element and insert it, unless the name is
\* already registered
enrich_insert(analysis, position, element_type, element_name, movement_type) ==
    IF element_name \notin DOMAIN analysis.network_elements
    THEN LET insertion_points == display_current_path(analysis)
             insert_at == insertion_points[position].position
         IN  [analysis EXCEPT
                 !.network_elements =
                     DictSet(@, element_name,
                             ElementRecord(element_type, movement_type,
                                           position)),
                 !.path_sequence = ListInsert(@, insert_at, element_name)]
    ELSE analysis

\* f"PIVOT_{pivot_name}"
PivotElementName(pivot_name) == "PIVOT_" \o pivot_name

\* add_pivot_point() (tracer.py:174-207)
add_pivot_point(analysis, pivot_name, pivot_ip, pivot_type, position) ==
    LET pivot_element_name == PivotElementName(pivot_name)
        registered ==
            [analysis EXCEPT !.network_elements =
                DictSet(@, pivot_element_name,
                        [type |-> "pivot_point",
                         pivot_ip |-> pivot_ip,
                         pivot_method |-> pivot_type,
                         source_info |->
                             [original_path |->
                                  analysis.initial_detection.source_ip],
                         destination_info |-> [pivot_target |-> pivot_ip],
                         movement_type |-> "lateral_movement"])]
        insertion_points == display_current_path(registered)
    IN  IF IsInt(position)
        THEN IF int(position) \in DOMAIN insertion_points
             THEN [registered EXCEPT !.path_sequence =
                      ListInsert(@, insertion_points[int(position)].position,
                                 pivot_element_name)]
             ELSE registered
        ELSE [registered EXCEPT !.path_sequence =
                 Append(@, pivot_element_name)]

\* mutant: the value is written to both directions of the record
record_info_BothDirections(analysis, element_name, direction, info_type, info_value) ==
    [analysis EXCEPT
        !.network_elements[element_name].source_info =
            DictSet(@, info_type, info_value),
        !.network_elements[element_name].destination_info =
            DictSet(@, info_type, info_value)]

\* element[f"{direction}_info"][info_type] = info_value (tracer.py:228)
record_info(analysis, element_name, direction, info_type, info_value) ==
    IF direction = "source"
    THEN [analysis EXCEPT !.network_elements[element_name].source_info =
             DictSet(@, info_type, info_value)]
    ELSE [analysis EXCEPT !.network_elements[element_name].destination_info =
             DictSet(@, info_type, info_value)]

\* collect_element_info(element_name, direction) for one piece of
\* information: `self.analysis["network_elements"][element_name]` raises
\* KeyError for a name that is not registered, before anything is changed
collect_element_info(analysis, element_name, direction, info_type, info_value) ==
    IF element_name \notin DOMAIN analysis.network_elements
    THEN [analysis |-> analysis, raised |-> "KeyError"]
    ELSE [analysis |-> record_info(analysis, element_name, direction,
                                   info_type, info_value),
          raised |-> "none"]

----------------------------------------------------------------------------
\* The command line session (tracer.py main/run/start_analysis/
\* enrich_analysis): main() builds NetworkPathAnalyzer() with no argument,
\* so the session always runs on JsonStorage (tracer.py:36, 569).

ThreatInputs == {"SQL Injection"}
ElementNames == {"FW1", "SW1"}
ElementTypes == {"firewall"}
MovementInputs == {"direct", "lateral"}
PivotNames == {"h1"}
InfoTypes == {"vlan"}
InfoValues == {"10"}

\* the only transient fault followed through a session or a request: a
\* save whose write fails after the file was opened
SaveFaults(b) == IF b = "json" THEN {"none", "dump"} ELSE {"none"}

\* the session is followed on a disk that does not fail
CliFaults == {"none"}

CliStore == Store(fs, mongo, server)

\* room left in an analyzer's log (flat file: its own file; indexed: logs)
LogRoom(b, st, log_filename) ==
    LogLen(b, st.fs, st.server, log_filename) < MaxCaseLog

\* NetworkPathAnalyzer() and the first prompt of start_analysis
CliNew ==
    /\ cli.pc \in {"none", "done"}
    /\ cli.run < MaxRuns
    /\ LogRoom("json", CliStore, LogFilename(now))
    /\ LET a == AnalyzerNew(now)
           i == initialize_database("json", fs, mongo, server, now, "none")
           st == write_to_log("json", Store(i.fs, i.mongo, server), a,
                              "analysis_started",
                              [timestamp |-> a.analysis.timestamp,
                               case_id |-> a.case_id], now)
       IN  /\ fs' = st.fs
           /\ cli' = [pc |-> "start", analysis |-> a.analysis,
                      log_filename |-> a.log_filename, case_id |-> a.case_id,
                      element |-> "", enrichment_level |-> 0,
                      run |-> cli.run + 1]
           /\ last' = [op |-> "new_analyzer", id |-> a.case_id]
    /\ UNCHANGED <<backend, mongo, server, now, saved, threads, callers>>

\* start_analysis, "continue" with a listed case id (tracer.py:286-302);
\* with no initial detection in the loaded case it falls through to the
\* detection prompt under the continued id
CliContinue ==
    /\ cli.pc = "start"
    /\ \E case_id \in JsonListCases(fs, "none") :
           LET case_data == JsonLoadCase(fs, case_id, "none")
               analysis == DictUpdate(cli.analysis, case_data)
           IN  /\ cli' = [cli EXCEPT
                             !.case_id = case_id,
                             !.analysis = analysis,
                             !.pc = IF analysis.initial_detection # EmptyDict
                                    THEN "menu" ELSE "detect",
                             !.enrichment_level =
                                 Len(analysis.path_sequence) + 1]
               /\ last' = [op |-> "continue", id |-> case_id]
    /\ UNCHANGED <<backend, fs, mongo, server, now, saved, threads, callers>>

\* start_analysis, any answer that leads to a new case (tracer.py:303-316)
CliStartNew ==
    /\ cli.pc = "start"
    /\ cli' = [cli EXCEPT !.pc = "detect"]
    /\ last' = [op |-> "start_new"]
    /\ UNCHANGED <<backend, fs, mongo, server, now, saved, threads, callers>>

\* start_analysis, "view" of a listed case (tracer.py:305-309)
CliView ==
    /\ cli.pc = "start"
    /\ \E case_id \in JsonListCases(fs, "none") :
           last' = [op |-> "view_case", id |-> case_id,
                    ret |-> JsonLoadCase(fs, case_id, "none")]
    /\ cli' = [cli EXCEPT !.pc = "done"]
    /\ UNCHANGED <<backend, fs, mongo, server, now, saved, threads, callers>>

\* the initial detection of a case (tracer.py:317-339)
CliDetect ==
    /\ cli.pc = "detect"
    /\ LogRoom("json", CliStore, cli.log_filename)
    /\ \E threat_type \in ThreatInputs, fault \in CliFaults :
           LET a == [cli EXCEPT !.analysis.initial_detection =
                                    Detection(threat_type)]
               st == write_to_log("json", CliStore, a, "initial_detection",
                                  DictSet(a.analysis.initial_detection,
                                          "case_id", a.case_id), now)
               r == save_case_to_db("json", st, a, now, fault)
           IN  /\ fs' = r.store.fs
               /\ saved' = Saved(saved, a.case_id, CaseData(a, now), r.ret)
               /\ cli' = [a EXCEPT !.pc = "menu",
                                   !.enrichment_level =
                                       Len(a.analysis.path_sequence) + 1]
               /\ last' = [op |-> "initial_detection", id |-> a.case_id]
    /\ UNCHANGED <<backend, mongo, server, now, threads, callers>>

\* enrichment menu, 'done'
CliDone ==
    /\ cli.pc = "menu"
    /\ cli' = [cli EXCEPT !.pc = "done"]
    /\ last' = [op |-> "done"]
    /\ UNCHANGED <<backend, fs, mongo, server, now, saved, threads, callers>>

\* enrichment menu, 'pivot': add_pivot_point() with everything typed into it
CliPivot ==
    /\ cli.pc = "menu"
    /\ Len(cli.analysis.path_sequence) < MaxPath
    /\ \E pivot_name \in PivotNames, position \in PositionInputs :
           /\ cli' = [cli EXCEPT !.analysis =
                         add_pivot_point(@, pivot_name, "10.0.5.7", "RDP",
                                         position)]
           /\ last' = [op |-> "add_pivot",
                       name |-> PivotElementName(pivot_name),
                       position |-> position]
    /\ UNCHANGED <<backend, fs, mongo, server, now, saved, threads, callers>>

\* enrichment menu, a choice that is no valid insertion point
\* (tracer.py:118-125)
CliInvalidChoice ==
    /\ cli.pc = "menu"
    /\ \E choice \in PositionInputs :
           /\ ~ValidPoint(choice, cli.analysis)
           /\ last' = [op |-> "invalid_choice", choice |-> choice]
    /\ UNCHANGED <<backend, fs, mongo, server, now, cli, saved,
                   threads, callers>>

\* enrichment menu, a valid insertion point and the element typed for it
\* (tracer.py:127-166)
CliAddElement ==
    /\ cli.pc = "menu"
    /\ cli.enrichment_level <= MaxPath + 1
    /\ \E choice \in PositionInputs, element_type \in ElementTypes,
          element_name \in ElementNames,
          typed \in MovementInputs, fault \in CliFaults :
           /\ ValidPoint(choice, cli.analysis)
           /\ LET position == int(choice)
                  is_new == element_name
                                \notin DOMAIN cli.analysis.network_elements
                  a == [cli EXCEPT !.analysis =
                           enrich_insert(@, position, element_type,
                                         element_name, MovementType(typed))]
                  log_data ==
                      DictUpdate([element_name |-> element_name,
                                  element_type |-> element_type,
                                  enrichment_level |-> cli.enrichment_level,
                                  movement_type |-> MovementType(typed),
                                  path_position |-> position,
                                  case_id |-> cli.case_id],
                                 cli.analysis.initial_detection)
                  st == write_to_log("json", CliStore, a,
                                     "network_element_added", log_data, now)
                  r == save_case_to_db("json", st, a, now, fault)
              IN  /\ is_new => Len(cli.analysis.path_sequence) < MaxPath
                  /\ is_new => LogRoom("json", CliStore, cli.log_filename)
                  /\ ~is_new => fault = "none"
                  /\ fs' = IF is_new THEN r.store.fs ELSE fs
                  /\ saved' = IF is_new
                              THEN Saved(saved, a.case_id, CaseData(a, now),
                                         r.ret)
                              ELSE saved
                  /\ cli' = [a EXCEPT !.pc = "source_info",
                                      !.element = element_name]
                  /\ last' = [op |-> "add_element", name |-> element_name,
                              point |-> position, added |-> is_new]
    /\ UNCHANGED <<backend, mongo, server, now, threads, callers>>

\* collect_element_info: one piece of information typed in
\* (tracer.py:221-244)
CliInfo ==
    /\ cli.pc \in {"source_info", "destination_info"}
    /\ LogRoom("json", CliStore, cli.log_filename)
    /\ \E info_type \in InfoTypes, info_value \in InfoValues,
          fault \in CliFaults :
           LET direction == IF cli.pc = "source_info"
                            THEN "source" ELSE "destination"
               element == cli.analysis.network_elements[cli.element]
               a == [cli EXCEPT !.analysis =
                        record_info(@, cli.element, direction, info_type,
                                    info_value)]
               csv_data ==
                   DictUpdate([case_id |-> cli.case_id,
                               element_name |-> cli.element,
                               element_type |-> element.type,
                               direction |-> direction,
                               info_type |-> info_type,
                               info_value |-> info_value,
                               movement_type |->
                                   Get(element, "movement_type",
                                       "direct_traversal"),
                               path_position |->
                                   Get(element, "path_position", 0)],
                              cli.analysis.initial_detection)
               st == write_to_log("json", CliStore, a, "information_added",
                                  csv_data, now)
               r == save_case_to_db("json", st, a, now, fault)
           IN  /\ fs' = r.store.fs
               /\ saved' = Saved(saved, a.case_id, CaseData(a, now), r.ret)
               /\ cli' = a
               /\ last' = [op |-> "record_info", name |-> cli.element,
                           direction |-> direction, key |-> info_type,
                           value |-> info_value]
    /\ UNCHANGED <<backend, mongo, server, now, threads, callers>>

\* collect_element_info, 'next': on to the destination question, or back to
\* the menu with the level raised (tracer.py:222-223, 169-172)
CliInfoNext ==
    /\ cli.pc \in {"source_info", "destination_info"}
    /\ cli' = IF cli.pc = "source_info"
              THEN [cli EXCEPT !.pc = "ask_destination"]
              ELSE [cli EXCEPT !.pc = "menu",
                               !.enrichment_level = @ + 1]
    /\ last' = [op |-> "next"]
    /\ UNCHANGED <<backend, fs, mongo, server, now, saved, threads, callers>>

\* "Add destination-specific information for this element? (y/n)"
CliAskDestination ==
    /\ cli.pc = "ask_destination"
    /\ \E answer \in {"y", "n"} :
           /\ cli' = IF answer = "y"
                     THEN [cli EXCEPT !.pc = "destination_info"]
                     ELSE [cli EXCEPT !.pc = "menu",
                                      !.enrichment_level = @ + 1]
           /\ last' = [op |-> "ask_destination", answer |-> answer]
    /\ UNCHANGED <<backend, fs, mongo, server, now, saved, threads, callers>>

----------------------------------------------------------------------------
\* The HTTP handlers (api.py), on the backend create_storage() selected

\* Optional[...] = None
PyNone == "<None>"

\* a NetworkElement of a request (api.py:63-70)
NetworkElement(element_type, name, movement_type) ==
    [element_type |-> element_type,
     name |-> name,
     movement_type |-> movement_type,
     source_info |-> EmptyDict,
     destination_info |-> EmptyDict,
     notes |-> PyNone]

\* a CaseUpdateRequest (api.py:72-78)
CaseUpdateRequest(description, network_elements) ==
    [description |-> description,
     investigator |-> PyNone,
     status |-> PyNone,
     network_elements |-> network_elements,
     notes |-> PyNone]

UpdateRequests ==
    {CaseUpdateRequest(PyNone,
                       <<NetworkElement("firewall", "FW1", "direct")>>),
     CaseUpdateRequest(PyNone,
                       <<NetworkElement("firewall", "FW1", "direct"),
                         NetworkElement("switch", "FW1", "lateral")>>),
     CaseUpdateRequest(PyNone,
                       <<NetworkElement("firewall", "FW1", "direct"),
                         NetworkElement("switch", "SW1", "direct")>>),
     CaseUpdateRequest("reviewed", <<>>)}

\* api.py:236-250, the loop over update_request.network_elements
RECURSIVE update_elements(_, _, _)
update_elements(analysis, network_elements, t) ==
    IF network_elements = <<>>
    THEN analysis
    ELSE LET element == Head(network_elements)
             base == [type |-> element.element_type,
                      movement_type |-> element.movement_type,
                      source_info |-> element.source_info,
                      destination_info |-> element.destination_info,
                      added_timestamp |-> t]
             element_data == IF element.notes # PyNone
                             THEN DictSet(base, "notes", element.notes)
                             ELSE base
         IN  update_elements(
                 [analysis EXCEPT
                     !.network_elements =
                         DictSet(@, element.name, element_data),
                     !.path_sequence = Append(@, element.name)],
                 Tail(network_elements), t)

\* api.py:208-252: what update_case does to the analyzer it has just built
apply_update(analysis, update_request, t) ==
    LET a1 == IF update_request.description # PyNone
              THEN DictSet(analysis, "description", update_request.description)
              ELSE analysis
        a2 == IF update_request.investigator # PyNone
              THEN DictSet(a1, "investigator", update_request.investigator)
              ELSE a1
        a3 == IF update_request.status # PyNone
              THEN DictSet(a2, "status", update_request.status)
              ELSE a2
        a4 == IF update_request.notes # PyNone
              THEN DictSet(a3, "notes",
                           Append(Get(a3, "notes", <<>>),
                                  [timestamp |-> t,
                                   content |-> update_request.notes]))
              ELSE a3
    IN  IF update_request.network_elements # <<>>
        THEN update_elements(a4, update_request.network_elements, t)
        ELSE a4

\* PATCH /cases/{case_id} (api.py:197-268): 404 for an unknown case; else a
\* new NetworkPathAnalyzer is built (its own case id and log file, from the
\* clock), the stored case is loaded and the result dropped, the request is
\* applied to the new analyzer and that analyzer is saved.
update_case(b, st, case_id, update_request, t, fault) ==
    LET e == case_exists(b, st.fs, st.mongo, st.server, case_id, "none")
        st0 == Store(st.fs, e.mongo, st.server)
    IN  IF ~e.ret
        THEN [store |-> st0, status |-> 404, saved_as |-> PyNone,
              saved_ok |-> FALSE, case_data |-> NoDoc]
        ELSE LET i == initialize_database(b, st0.fs, st0.mongo, st0.server,
                                          t, "none")
                 new == AnalyzerNew(t)
                 st1 == write_to_log(b, Store(i.fs, i.mongo, st0.server), new,
                                     "analysis_started",
                                     [timestamp |-> new.analysis.timestamp,
                                      case_id |-> new.case_id], t)
                 l == load_case(b, st1.fs, st1.mongo, st1.server, case_id,
                                "none")
                 st2 == Store(st1.fs, l.mongo, st1.server)
                 analyzer == [new EXCEPT !.analysis =
                                 apply_update(@, update_request, t)]
                 r == save_case_to_db(b, st2, analyzer, t, fault)
             IN  IF i.raised
                 THEN [store |-> Store(i.fs, i.mongo, st0.server),
                       status |-> 500, saved_as |-> PyNone,
                       saved_ok |-> FALSE, case_data |-> NoDoc]
                 ELSE [store |-> r.store, status |-> 200,
                       saved_as |-> analyzer.case_id, saved_ok |-> r.ret,
                       case_data |-> CaseData(analyzer, t)]

\* POST /cases (api.py:154-195)
create_case(b, st, threat_type, description, t, fault) ==
    LET i == initialize_database(b, st.fs, st.mongo, st.server, t, "none")
        new == AnalyzerNew(t)
        st1 == write_to_log(b, Store(i.fs, i.mongo, st.server), new,
                            "analysis_started",
                            [timestamp |-> new.analysis.timestamp,
                             case_id |-> new.case_id], t)
        a1 == [new.analysis EXCEPT !.initial_detection =
                                       Detection(threat_type)]
        a2 == IF description # PyNone /\ description # ""
              THEN DictSet(a1, "description", description)
              ELSE a1
        a3 == DictSet(DictSet(a2, "status", "active"), "notes", <<>>)
        analyzer == [new EXCEPT !.analysis = a3]
        r == save_case_to_db(b, st1, analyzer, t, fault)
    IN  IF i.raised
        THEN [store |-> Store(i.fs, i.mongo, st.server), status |-> 500,
              saved_as |-> PyNone, saved_ok |-> FALSE, case_data |-> NoDoc]
        ELSE [store |-> r.store, status |-> 200,
              saved_as |-> analyzer.case_id, saved_ok |-> r.ret,
              case_data |-> CaseData(analyzer, t)]

\* the effect of a handler's result on the state
HttpDone(r, op, case_id, request) ==
    /\ fs' = r.store.fs
    /\ mongo' = r.store.mongo
    /\ server' = r.store.server
    /\ saved' = IF r.status = 200
                THEN Saved(saved, r.saved_as, r.case_data, r.saved_ok)
                ELSE saved
    /\ last' = [op |-> op, id |-> case_id, request |-> request,
                status |-> r.status, saved_as |-> r.saved_as,
                saved_ok |-> r.saved_ok]
    /\ UNCHANGED <<backend, now, cli, threads, callers>>

HttpCreateCase ==
    /\ LogRoom(backend, CliStore, LogFilename(now))
    /\ \E threat_type \in ThreatInputs, description \in {PyNone, "first"},
          fault \in SaveFaults(backend) :
           HttpDone(create_case(backend, CliStore, threat_type, description,
                                now, fault),
                    "create_case", PyNone, description)

HttpUpdateCase ==
    /\ LogRoom(backend, CliStore, LogFilename(now))
    /\ \E case_id \in AllIds, update_request \in UpdateRequests,
          fault \in SaveFaults(backend) :
           HttpDone(update_case(backend, CliStore, case_id, update_request,
                                now, fault),
                    "update_case", case_id, update_request)

\* POST /cases/{case_id}/elements (api.py:270-279): update_case with the
\* one element
HttpAddNetworkElement ==
    /\ LogRoom(backend, CliStore, LogFilename(now))
    /\ \E case_id \in AllIds, name \in ElementNames,
          fault \in SaveFaults(backend) :
           LET update_request ==
                   CaseUpdateRequest(PyNone,
                       <<NetworkElement("router", name, "direct")>>)
           IN  HttpDone(update_case(backend, CliStore, case_id,
                                    update_request, now, fault),
                        "add_network_element", case_id, update_request)

\* mutant: a delete that answers as if it had deleted
delete_case_Succeeds(b, st, case_id) ==
    LET e == case_exists(b, st.fs, st.mongo, st.server, case_id, "none")
    IN  [store |-> Store(st.fs, e.mongo, st.server),
         status |-> IF e.ret THEN 200 ELSE 404,
         saved_as |-> PyNone, saved_ok |-> FALSE, case_data |-> NoDoc]

\* DELETE /cases/{case_id} (api.py:329-343): 404 for a case that
\* case_exists does not report, else 501; nothing is deleted
delete_case(b, st, case_id) ==
    LET e == case_exists(b, st.fs, st.mongo, st.server, case_id, "none")
    IN  [store |-> Store(st.fs, e.mongo, st.server),
         status |-> IF ~e.ret THEN 404 ELSE 501,
         saved_as |-> PyNone, saved_ok |-> FALSE, case_data |-> NoDoc]

HttpDeleteCase ==
    \E case_id \in AllIds :
        HttpDone(delete_case(backend, CliStore, case_id),
                 "delete_case", case_id, PyNone)

\* the environment: a second passes between two runs of the tool (within a
\* run the clock only stamps log entries and last_updated)
CliTick ==
    /\ cli.pc \in {"none", "done"}
    /\ Tick

\* The command line session alone: one user, the flat file, the clock.
Init ==
    /\ InitStorage
    /\ backend = "json"

Next ==
    \/ CliNew
    \/ CliContinue
    \/ CliStartNew
    \/ CliView
    \/ CliDetect
    \/ CliDone
    \/ CliPivot
    \/ CliInvalidChoice
    \/ CliAddElement
    \/ CliInfo
    \/ CliInfoNext
    \/ CliAskDestination
    \/ CliTick

Spec == Init /\ [][Next]_vars

\* The HTTP service alone: requests handled one at a time, on either backend.
NextHttp ==
    \/ HttpCreateCase
    \/ HttpUpdateCase
    \/ HttpAddNetworkElement
    \/ HttpDeleteCase
    \/ ServerToggle
    \/ Tick

SpecHttp == InitStorage /\ [][NextHttp]_vars

----------------------------------------------------------------------------
\* Storage contract: claims C2 - C6, under SpecStorage

\* the three fields the round trip is about; absent fields read as Missing
Missing == [missing |-> TRUE]
CoreFields(d) ==
    [initial_detection |-> Get(d, "initial_detection", Missing),
     network_elements |-> Get(d, "network_elements", Missing),
     path_sequence |-> Get(d, "path_sequence", Missing)]

\* a read that meets no transient fault (reachable server, readable disk)
CanRead == backend = "mongo" => server.up

\* C2: after a save_case(id, D) that returned True, and no later save_case of
\* id, load_case(id) returns D's initial_detection, network_elements and
\* path_sequence.
C2_RoundTrip ==
    \A id \in StoreIds :
        (saved[id] \notin {NoDoc, Stale} /\ CanRead)
        => CoreFields(load_case(backend, fs, mongo, server, id, "none").ret)
           = CoreFields(saved[id])

\* C3: load_case of a case id no save_case ever stored returns the empty
\* skeleton, on both backends, also when the read fails.
C3_LoadUnknownIsSkeleton ==
    (last.op = "load_case" /\ saved[last.id] = NoDoc)
    => last.ret = Skeleton

\* C4: in every state case_exists(id) agrees with membership in list_cases()
\* (both calls meeting no transient fault of their own), and case_exists(id)
\* holds right after a save_case(id, ..) that returned True.
C4_ExistsIffListed ==
    /\ \A id \in StoreIds :
           case_exists(backend, fs, mongo, server, id, "none").ret
           <=> id \in list_cases(backend, fs, mongo, server, "none").ret
    /\ (last.op = "save_case" /\ last.ret /\ CanRead)
       => case_exists(backend, fs, mongo, server, last.id, "none").ret

C4_Witness ==
    /\ last.op = "save_case"
    /\ last.ret
    /\ case_exists(backend, fs, mongo, server, last.id, "none").ret
    /\ \E id \in StoreIds :
           ~case_exists(backend, fs, mongo, server, id, "none").ret

\* C5: save_case replaces the stored document by the new one, and of two
\* sequential save_case calls of one id with different descriptions the
\* second description is the stored and the loadable one.
C5_LastWriteWins ==
    (/\ last.op = "save_case"
     /\ last.ret
     /\ last.before \notin {NoDoc, Stale}
     /\ "description" \in DOMAIN last.before
     /\ "description" \in DOMAIN saved[last.id]
     /\ last.before.description # saved[last.id].description)
    => /\ StoredDoc(backend, fs, server, last.id) = saved[last.id]
       /\ Get(load_case(backend, fs, mongo, server, last.id, "none").ret,
              "description", "") = saved[last.id].description

\* C6: a save_case that returns False leaves every stored case loadable with
\* its old content.
C6_FailedSaveKeepsState ==
    [][(last'.op = "save_case" /\ ~last'.ret)
       => /\ \A id \in StoreIds :
                 JsonLoadCase(fs', id, "none") = JsonLoadCase(fs, id, "none")
          /\ server'.cases = server.cases]_vars


----------------------------------------------------------------------------
\* Path structure: claims C1, C7 - C9 under Spec, C10 under SpecHttp

\* the path and the registry of the session's analyzer
Path == cli.analysis.path_sequence
Registry == cli.analysis.network_elements

\* C1: a path of length N shows exactly the insertion points 1..N+1, point k
\* standing for array index k-1; adding a new element name at point k puts
\* the name at index k-1 (the k-th entry), grows the path by one and keeps
\* the order of the entries that were there.
C1_InsertAtPoint ==
    [][/\ cli.pc # "none" =>
              LET insertion_points == display_current_path(cli.analysis)
              IN  /\ DOMAIN insertion_points = 1..(Len(Path) + 1)
                  /\ \A k \in DOMAIN insertion_points :
                         insertion_points[k].position = k - 1
       /\ (last'.op = "add_element" /\ last'.added) =>
              LET k == last'.point
                  old == Path
                  new == Path'
              IN  /\ k \in 1..(Len(old) + 1)
                  /\ Len(new) = Len(old) + 1
                  /\ new[k] = last'.name
                  /\ \A i \in 1..Len(old) :
                         new[IF i < k THEN i ELSE i + 1] = old[i]]_vars

\* a new name has gone between two different entries of a path
C1_Witness ==
    /\ last.op = "add_element"
    /\ last.added
    /\ last.point = 2
    /\ Len(Path) = 3
    /\ Path[2] = last.name
    /\ Path[1] # Path[3]
    /\ Path[1] # Path[2]
    /\ Path[3] # Path[2]

\* C7: the path of a case never holds a name twice.
C7_NoDuplicateNames ==
    cli.pc # "none" =>
        \A i, j \in 1..Len(Path) : Path[i] = Path[j] => i = j

\* C8: the names on the path are exactly the keys of the registry.
C8_PathIsRegistry ==
    cli.pc # "none" => Elems(Path) = DOMAIN Registry

\* C9: a pivot added with an out-of-range or non-numeric position becomes
\* the last entry of the path; with an in-range position k it becomes the
\* k-th entry (index k-1).
C9_PivotPlacement ==
    [][last'.op = "add_pivot" =>
          LET old == Path
              new == Path'
              position == last'.position
              in_range == IF IsInt(position)
                          THEN int(position) \in 1..(Len(old) + 1)
                          ELSE FALSE
          IN  /\ Len(new) = Len(old) + 1
              /\ IF in_range
                 THEN new[int(position)] = last'.name
                 ELSE new[Len(new)] = last'.name]_vars

\* the first element of a request that carries the name
FirstNamed(network_elements, name) ==
    network_elements[CHOOSE i \in 1..Len(network_elements) :
                         /\ network_elements[i].name = name
                         /\ \A j \in 1..(i - 1) :
                                network_elements[j].name # name]

\* C10: adding a name that is already registered changes neither its record
\* nor the path; after an update whose elements name FW1 twice, the case
\* that was written holds the name once, with the record of its first
\* addition.
C10_AddExistingIsNoOp ==
    (/\ last.op \in {"update_case", "add_network_element"}
     /\ last.status = 200
     /\ last.saved_ok
     /\ CanRead)
    => LET doc == StoredDoc(backend, fs, server, last.saved_as)
           network_elements == last.request.network_elements
       IN  \A i \in 1..Len(network_elements) :
               LET name == network_elements[i].name
               IN  /\ Count(doc.path_sequence, name) = 1
                   /\ doc.network_elements[name].type =
                          FirstNamed(network_elements, name).element_type

----------------------------------------------------------------------------
\* The two backends side by side: one caller makes every call on a
\* JsonStorage and on a MongoStorageSync, with no fault and a reachable
\* server, and keeps both results.

\* both backends have been through initialize_database()
BothReady == path_exists(fs, DbFile) /\ mongo.initialized

InitBoth ==
    /\ backend = "both"
    /\ fs = [n \in Files |-> Absent]
    /\ mongo = MongoNew
    /\ server = ServerNew
    /\ now = 0
    /\ cli = CliIdle
    /\ last = [op |-> "none"]
    /\ saved = [i \in AllIds |-> NoDoc]
    /\ threads = NoThreads
    /\ callers = NoCallers

BothInitialize ==
    LET j == JsonInitializeDatabase(fs, now, "none")
        m == MongoInitializeDatabase(mongo, server)
    IN  /\ fs' = j.fs
        /\ mongo' = m.mongo
        /\ last' = [op |-> "initialize_database", json |-> j.raised,
                    mongo |-> m.raised]
        /\ UNCHANGED <<backend, server, now, cli, saved, threads, callers>>

BothSaveCase ==
    /\ BothReady
    /\ \E case_id \in StoreIds, case_data \in StoreDocs :
           LET j == JsonSaveCase(fs, case_id, case_data, "none")
               m == MongoSaveCase(mongo, server, case_id, case_data, now)
           IN  /\ fs' = j.fs
               /\ mongo' = m.mongo
               /\ server' = m.server
               /\ saved' = Saved(saved, case_id, case_data, j.ret /\ m.ret)
               /\ last' = [op |-> "save_case", id |-> case_id,
                           json |-> j.ret, mongo |-> m.ret]
    /\ UNCHANGED <<backend, now, cli, threads, callers>>

BothLoadCase ==
    /\ BothReady
    /\ \E case_id \in StoreIds :
           LET m == MongoLoadCase(mongo, server, case_id)
           IN  /\ mongo' = m.mongo
               /\ last' = [op |-> "load_case", id |-> case_id,
                           json |-> JsonLoadCase(fs, case_id, "none"),
                           mongo |-> m.ret]
    /\ UNCHANGED <<backend, fs, server, now, cli, saved, threads, callers>>

BothListCases ==
    /\ BothReady
    /\ LET m == MongoListCases(mongo, server)
       IN  /\ mongo' = m.mongo
           /\ last' = [op |-> "list_cases",
                       json |-> JsonListCases(fs, "none"), mongo |-> m.ret]
    /\ UNCHANGED <<backend, fs, server, now, cli, saved, threads, callers>>

BothCaseExists ==
    /\ BothReady
    /\ \E case_id \in StoreIds :
           LET m == MongoCaseExists(mongo, server, case_id)
           IN  /\ mongo' = m.mongo
               /\ last' = [op |-> "case_exists", id |-> case_id,
                           json |-> JsonCaseExists(fs, case_id, "none"),
                           mongo |-> m.ret]
    /\ UNCHANGED <<backend, fs, server, now, cli, saved, threads, callers>>

NextBoth ==
    \/ BothInitialize
    \/ BothSaveCase
    \/ BothLoadCase
    \/ BothListCases
    \/ BothCaseExists
    \/ Tick

SpecBoth == InitBoth /\ [][NextBoth]_vars

\* C11: after initialize_database and with no failure, every save_case,
\* load_case, list_cases and case_exists call returns the same result on the
\* flat-file backend and on the indexed backend (case lists as sets).
C11_BackendsAgree ==
    last.op \in {"save_case", "load_case", "list_cases", "case_exists"}
    => last.json = last.mongo

----------------------------------------------------------------------------
\* Two owners of one case: each caller is a NetworkPathAnalyzer that loads
\* the case (load_existing_case + analysis.update, tracer.py:209-211,
\* 289-291), adds an element to its copy, and saves the copy
\* (save_case_to_db).  Every storage call is one step: the indexed backend
\* runs its client call under self._lock, the flat file is read or written
\* in one call.

MaxRounds == 2     \* a caller loads, adds and saves at most MaxRounds times

Callers == {1, 2}
RaceCase == "CASE_A"

\* the case as a first session left it: a detection, nothing on the path
RaceSeedDocs == {d \in StoreDocs : d.path_sequence = <<>>}

CallerIdle ==
    [pc |-> "idle", analysis |-> Skeleton, name |-> "", ret |-> FALSE,
     round |-> 0]

InitRace ==
    /\ backend \in {"json", "mongo"}
    /\ fs = [n \in Files |-> Absent]
    /\ mongo = MongoNew
    /\ server = ServerNew
    /\ now = 0
    /\ cli = CliIdle
    /\ last = [op |-> "none"]
    /\ saved = [i \in AllIds |-> NoDoc]
    /\ threads = NoThreads
    /\ callers = [p \in Callers |-> CallerIdle]

\* an earlier session creates the database and stores the case
RaceSeed ==
    /\ StoredDoc(backend, fs, server, RaceCase) = NoDoc
    /\ \A p \in Callers : callers[p].pc = "idle"
    /\ \E case_data \in RaceSeedDocs :
           LET i == initialize_database(backend, fs, mongo, server, now,
                                        "none")
               r == save_case(backend, i.fs, i.mongo, server, RaceCase,
                              case_data, now, "none")
           IN  /\ fs' = r.fs
               /\ mongo' = r.mongo
               /\ server' = r.server
               /\ saved' = Saved(saved, RaceCase, case_data, r.ret)
               /\ last' = [op |-> "seed", ret |-> r.ret]
    /\ UNCHANGED <<backend, now, cli, threads, callers>>

\* load_existing_case(case_id) and self.analysis.update(case_data), for a
\* case id that list_cases() shows
RaceLoad(p) ==
    /\ callers[p].pc \in {"idle", "saved"}
    /\ callers[p].round < MaxRounds
    /\ RaceCase \in list_cases(backend, fs, mongo, server, "none").ret
    /\ LET r == load_case(backend, fs, mongo, server, RaceCase, "none")
           fresh == AnalyzerNew(now).analysis
       IN  /\ mongo' = r.mongo
           /\ callers' = [callers EXCEPT ![p] =
                             [pc |-> "loaded",
                              analysis |-> DictUpdate(fresh, r.ret),
                              name |-> "", ret |-> FALSE,
                              round |-> @.round + 1]]
           /\ last' = [op |-> "load", caller |-> p]
    /\ UNCHANGED <<backend, fs, server, now, cli, saved, threads>>

\* the caller registers an element and puts it on the path of its copy
RaceAdd(p) ==
    /\ callers[p].pc = "loaded"
    /\ "path_sequence" \in DOMAIN callers[p].analysis
    /\ \E element_name \in ElementNames,
          position \in DOMAIN display_current_path(callers[p].analysis) :
           /\ element_name \notin DOMAIN callers[p].analysis.network_elements
           /\ callers' = [callers EXCEPT ![p] =
                  [@ EXCEPT !.pc = "mutated",
                            !.name = element_name,
                            !.analysis =
                                enrich_insert(@, position, "firewall",
                                              element_name,
                                              "direct_traversal")]]
           /\ last' = [op |-> "add", caller |-> p]
    /\ UNCHANGED <<backend, fs, mongo, server, now, cli, saved, threads>>

\* save_case_to_db() of the caller's copy
RaceSave(p) ==
    /\ callers[p].pc = "mutated"
    /\ LET a == [analysis |-> callers[p].analysis, case_id |-> RaceCase]
           r == save_case_to_db(backend, Store(fs, mongo, server), a, now,
                                "none")
       IN  /\ fs' = r.store.fs
           /\ mongo' = r.store.mongo
           /\ server' = r.store.server
           /\ saved' = Saved(saved, RaceCase, CaseData(a, now), r.ret)
           /\ callers' = [callers EXCEPT ![p] =
                             [@ EXCEPT !.pc = "saved", !.ret = r.ret]]
           /\ last' = [op |-> "save", caller |-> p]
    /\ UNCHANGED <<backend, now, cli, threads>>

NextRace ==
    \/ RaceSeed
    \/ \E p \in Callers : RaceLoad(p)
    \/ \E p \in Callers : RaceAdd(p)
    \/ \E p \in Callers : RaceSave(p)
    \/ ServerToggle
    \/ Tick

SpecRace == InitRace /\ [][NextRace]_vars

\* both callers have saved with success, each a copy that holds its own
\* element and not the other's: both had loaded before either saved
BothSavedBlind ==
    /\ \A p \in Callers : callers[p].pc = "saved" /\ callers[p].ret
    /\ callers[1].name # callers[2].name
    /\ callers[2].name \notin Elems(callers[1].analysis.path_sequence)
    /\ callers[1].name \notin Elems(callers[2].analysis.path_sequence)

\* C12: when two callers load the same case, add different elements and
\* save, the stored document is one caller's copy and holds only that
\* caller's element: the other update is lost, on either backend.
C12_LostUpdate ==
    BothSavedBlind =>
        LET doc == StoredDoc(backend, fs, server, RaceCase)
        IN  /\ \E p \in Callers :
                   /\ doc.path_sequence = callers[p].analysis.path_sequence
                   /\ doc.network_elements =
                          callers[p].analysis.network_elements
            /\ ~({callers[1].name, callers[2].name}
                     \subseteq Elems(doc.path_sequence))

\* the lost update on the indexed backend, whose calls run under its lock
C12_Witness ==
    /\ backend = "mongo"
    /\ BothSavedBlind
    /\ Elems(StoredDoc(backend, fs, server, RaceCase).path_sequence)
           = {callers[2].name}
    /\ callers[1].name = "FW1"

----------------------------------------------------------------------------
\* MongoStorageSync under threads (mongo_storage_sync.py:34-169).  Each
\* public operation is followed statement by statement: the unlocked
\* `if not self._initialized`, initialize_database() with its lock and its
\* second check, `with self._lock:` around the client call.

MaxCloses == 1     \* close() closes a client at most MaxCloses times

MaxCalls == 3      \* where callers are finitely many: calls made in all

Threads == {1, 2}

ThreadOps ==
    {"save_case", "load_case", "list_cases", "case_exists",
     "write_log_entry", "initialize_database", "close"}

\* the positions at which a thread is inside a pymongo call
InCall == {"init_call", "op_call", "close_call"}

ThreadIdle == [pc |-> "idle", op |-> "none"]

InitThreads ==
    /\ backend = "mongo"
    /\ fs = [n \in Files |-> Absent]
    /\ mongo = MongoNew
    /\ server = ServerNew
    /\ now = 0
    /\ cli = CliIdle
    /\ last = [op |-> "none"]
    /\ saved = [i \in AllIds |-> NoDoc]
    /\ threads = [lock |-> 0, th |-> [t \in Threads |-> ThreadIdle],
                  setups |-> 0, closes |-> 0]
    /\ callers = NoCallers

\* mutant: a lock that never makes anyone wait
LockFree_Always(th) == TRUE

\* threading.Lock: free when no thread holds it
LockFree(th) == th.lock = 0

\* mutant: initialize_database without its check under the lock
AlreadyInitialized_Unchecked(m) == FALSE

\* `if self._initialized: return` under the lock (line 37)
AlreadyInitialized(m) == m.initialized

SetPc(th, t, pc) == [th EXCEPT !.th[t].pc = pc]

\* mutant: a lock that stays with the thread whose block raised
WithExit_HeldOnRaise(t, raised) == IF raised THEN t ELSE 0

\* the holder of self._lock once thread t has left its `with self._lock:`
\* block, by its end, by return or by an exception: nobody
WithExit(t, raised) == 0

\* calls still to come where the callers are finitely many (`budget`);
\* without the field callers keep coming
Budget(th) == IF "budget" \in DOMAIN th THEN th.budget ELSE 1
Spend(th) ==
    IF "budget" \in DOMAIN th THEN [th EXCEPT !.budget = @ - 1] ELSE th

\* a thread calls a public operation
ThCall(t) ==
    /\ threads.th[t].pc = "idle"
    /\ \E op \in ThreadOps :
           /\ op = "write_log_entry" => Len(server.logs) < MaxLog
           /\ op = "close" => threads.closes < MaxCloses
           /\ Budget(threads) > 0
           /\ threads' = [Spend(threads) EXCEPT !.th[t] =
                  [pc |-> IF op = "initialize_database" THEN "init_lock"
                          ELSE IF op = "close" THEN "close_lock"
                          ELSE "check",
                   op |-> op]]
           /\ last' = [op |-> "call", thread |-> t, name |-> op]
    /\ UNCHANGED <<backend, fs, mongo, server, now, cli, saved, callers>>

\* `if not self._initialized: self.initialize_database()`, outside the lock
ThCheck(t) ==
    /\ threads.th[t].pc = "check"
    /\ threads' = SetPc(threads, t,
                        IF ~mongo.initialized THEN "init_lock" ELSE "op_lock")
    /\ last' = [op |-> "check", thread |-> t, name |-> threads.th[t].op]
    /\ UNCHANGED <<backend, fs, mongo, server, now, cli, saved, callers>>

\* initialize_database: `with self._lock:` and the check under it; an
\* initialized backend returns at once, else MongoClient(...) is entered
ThInitEnter(t) ==
    /\ threads.th[t].pc = "init_lock"
    /\ LockFree(threads)
    /\ IF AlreadyInitialized(mongo)
       THEN /\ threads' =
                   IF threads.th[t].op = "initialize_database"
                   THEN [threads EXCEPT !.th[t] = ThreadIdle]
                   ELSE SetPc(threads, t, "op_lock")
            /\ last' = [op |-> "already_initialized", thread |-> t,
                        name |-> threads.th[t].op]
       ELSE /\ threads' = [SetPc(threads, t, "init_call") EXCEPT !.lock = t]
            /\ last' = [op |-> "setup", thread |-> t,
                        name |-> threads.th[t].op]
    /\ UNCHANGED <<backend, fs, mongo, server, now, cli, saved, callers>>

\* what a public operation returns when its try block raised
Failed(op) ==
    CASE op = "load_case" -> EmptyDict
      [] op = "list_cases" -> {}
      [] op = "initialize_database" -> "ConnectionError"
      [] OTHER -> FALSE

\* the client is created, pinged and the indexes are made; then
\* _initialized is set and the lock released.  A ping that fails closes and
\* drops the client and raises ConnectionError: the operation that asked
\* for the connection returns its failure value.
ThInitCall(t) ==
    /\ threads.th[t].pc = "init_call"
    /\ IF server.up
       THEN /\ mongo' = [client |-> TRUE, db |-> TRUE, initialized |-> TRUE]
            /\ threads' =
                   [threads EXCEPT
                       !.lock = WithExit(t, FALSE),
                       !.setups = @ + 1,
                       !.th[t] = IF @.op = "initialize_database"
                                 THEN ThreadIdle
                                 ELSE [@ EXCEPT !.pc = "op_lock"]]
            /\ last' = [op |-> "initialized", thread |-> t,
                        name |-> threads.th[t].op]
       ELSE /\ mongo' = [client |-> FALSE, db |-> TRUE,
                         initialized |-> FALSE]
            /\ threads' = [threads EXCEPT !.lock = WithExit(t, TRUE),
                                          !.th[t] = ThreadIdle]
            /\ last' = [op |-> "return", thread |-> t,
                        name |-> threads.th[t].op,
                        ret |-> Failed(threads.th[t].op)]
    /\ UNCHANGED <<backend, fs, server, now, cli, saved, callers>>

\* `with self._lock:` of a data operation
ThOpEnter(t) ==
    /\ threads.th[t].pc = "op_lock"
    /\ LockFree(threads)
    /\ threads' = [SetPc(threads, t, "op_call") EXCEPT !.lock = t]
    /\ last' = [op |-> "enter", thread |-> t, name |-> threads.th[t].op]
    /\ UNCHANGED <<backend, fs, mongo, server, now, cli, saved, callers>>

\* the effect and the result of the client call of a data operation
ClientCall(op, srv, t) ==
    LET case_id == "CASE_A"
        case_data == CHOOSE d \in StoreDocs : d.path_sequence = <<>>
        entry == [timestamp |-> t, action |-> "analysis_started",
                  data |-> EmptyDict]
    IN  CASE op = "save_case" ->
                 [server |-> [srv EXCEPT !.cases =
                                 DictSet(@, case_id,
                                         [case_id |-> case_id,
                                          timestamp |-> t,
                                          data |-> case_data])],
                  ret |-> TRUE]
          [] op = "load_case" ->
                 [server |-> srv,
                  ret |-> IF case_id \in DOMAIN srv.cases
                          THEN srv.cases[case_id].data ELSE EmptyDict]
          [] op = "list_cases" ->
                 [server |-> srv,
                  ret |-> {srv.cases[k].case_id : k \in DOMAIN srv.cases}]
          [] op = "case_exists" ->
                 [server |-> srv,
                  ret |-> Cardinality({k \in DOMAIN srv.cases :
                                  srv.cases[k].case_id = case_id}) > 0]
          [] OTHER ->
                 [server |-> [srv EXCEPT !.logs =
                                 Append(@, [case_id |-> "unknown",
                                            log_filename |-> LogFilename(0),
                                            timestamp |-> t,
                                            entry |-> entry])],
                  ret |-> TRUE]

\* the client call itself and the way out of the lock.  A client that
\* close() has closed in the meantime may refuse the call or reconnect,
\* depending on the driver.
ThOpCall(t) ==
    /\ threads.th[t].pc = "op_call"
    /\ \E usable \in (IF mongo.client THEN {TRUE} ELSE {TRUE, FALSE}) :
           LET op == threads.th[t].op
               r == IF usable /\ server.up
                    THEN ClientCall(op, server, now)
                    ELSE [server |-> server, ret |-> Failed(op)]
           IN  /\ server' = r.server
               /\ threads' = [threads EXCEPT
                                 !.lock = WithExit(t, ~(usable /\ server.up)),
                                 !.th[t] = ThreadIdle]
               /\ last' = [op |-> "return", thread |-> t, name |-> op,
                           ret |-> r.ret, client |-> mongo.client,
                           answered |-> usable /\ server.up]
    /\ UNCHANGED <<backend, fs, mongo, now, cli, saved, callers>>

\* close(): `with self._lock:` and `if self.client:`
ThCloseEnter(t) ==
    /\ threads.th[t].pc = "close_lock"
    /\ LockFree(threads)
    /\ threads' = IF mongo.client
                  THEN [SetPc(threads, t, "close_call") EXCEPT !.lock = t]
                  ELSE [threads EXCEPT !.th[t] = ThreadIdle]
    /\ last' = [op |-> "enter", thread |-> t, name |-> "close"]
    /\ UNCHANGED <<backend, fs, mongo, server, now, cli, saved, callers>>

\* self.client.close(); self.client = None; self._initialized = False
ThCloseCall(t) ==
    /\ threads.th[t].pc = "close_call"
    /\ mongo' = MongoClose(mongo)
    /\ threads' = [threads EXCEPT !.lock = WithExit(t, FALSE),
                                  !.closes = @ + 1,
                                  !.th[t] = ThreadIdle]
    /\ last' = [op |-> "closed", thread |-> t, name |-> "close"]
    /\ UNCHANGED <<backend, fs, server, now, cli, saved, callers>>

NextThreads ==
    \/ \E t \in Threads : ThCall(t)
    \/ \E t \in Threads : ThCheck(t)
    \/ \E t \in Threads : ThInitEnter(t)
    \/ \E t \in Threads : ThInitCall(t)
    \/ \E t \in Threads : ThOpEnter(t)
    \/ \E t \in Threads : ThOpCall(t)
    \/ \E t \in Threads : ThCloseEnter(t)
    \/ \E t \in Threads : ThCloseCall(t)
    \/ ServerToggle

SpecThreads == InitThreads /\ [][NextThreads]_vars

\* C13: at any time at most one thread is inside a client call of the
\* indexed backend, and that thread holds the lock.
C13_OneThreadInClient ==
    /\ Cardinality({t \in Threads : threads.th[t].pc \in InCall}) <= 1
    /\ \A t \in Threads : threads.th[t].pc \in InCall => threads.lock = t

\* one thread is inside a client call while the other waits for the lock
C13_Witness ==
    /\ threads.th[1].pc = "op_call"
    /\ threads.th[2].pc \in {"op_lock", "init_lock", "close_lock"}

\* C14: the connection setup succeeds at most once for each time the
\* connection was closed plus one: threads whose first operations run
\* together on an uninitialized backend set it up once.
C14_SetupOnce ==
    threads.setups <= threads.closes + 1

\* a thread had seen `not _initialized` outside the lock, waited while the
\* other thread set the connection up, and returned from
\* initialize_database without a second setup
C14_Witness ==
    /\ last.op = "already_initialized"
    /\ last.name # "initialize_database"
    /\ threads.setups = 1
    /\ threads.closes = 0

----------------------------------------------------------------------------
\* Storage contract, continued: claims C15, C16 under SpecStorage

\* a step of the environment (the clock, the server), not a call
EnvStep == now' # now \/ server'.up # server.up

\* initialize_database() has already set this backend up
IsInitialized(b, f, m) ==
    IF b = "json" THEN path_exists(f, DbFile) ELSE m.initialized

\* C15: initialize_database on a backend that is already initialized
\* changes nothing: the database file (its cases map and metadata), the
\* connection and the stored cases stay as they were, and the call does not
\* raise.
C15_InitializeIdempotent ==
    [][(/\ ~EnvStep
        /\ last'.op = "initialize_database"
        /\ IsInitialized(backend, fs, mongo))
       => /\ fs' = fs
          /\ mongo' = mongo
          /\ server' = server
          /\ ~last'.raised
          /\ \A id \in StoreIds :
                 StoredDoc(backend, fs', server', id)
                     = StoredDoc(backend, fs, server, id)]_vars

\* initialize_database has been called on a flat file that holds a case
C15_Witness ==
    /\ backend = "json"
    /\ last.op = "initialize_database"
    /\ \E id \in StoreIds :
           /\ saved[id] \notin {NoDoc, Stale}
           /\ StoredDoc(backend, fs, server, id) = saved[id]

\* the entries of a log channel, oldest first
LogOf(b, f, srv, log_filename) ==
    IF b = "json"
    THEN IF json_loadable(f[log_filename])
            /\ "tracer_log" \in DOMAIN json_load(f[log_filename])
         THEN json_load(f[log_filename]).tracer_log
         ELSE <<>>
    ELSE LET OnChannel(d) == d.log_filename = log_filename
             documents == SelectSeq(srv.logs, OnChannel)
         IN  [i \in 1..Len(documents) |-> documents[i].entry]

IsPrefix(s, t) == Len(s) <= Len(t) /\ SubSeq(t, 1, Len(s)) = s

\* C16: every write_log_entry leaves the log it found as a prefix of the
\* log it leaves, adds its entry at the end when it returns True, and
\* changes neither another channel nor the case database.
C16_LogAppendOnly ==
    [][(~EnvStep /\ last'.op = "write_log_entry") =>
          LET before == LogOf(backend, fs, server, last'.channel)
              after == LogOf(backend, fs', server', last'.channel)
          IN  /\ IsPrefix(before, after)
              /\ last'.ret => after = Append(before, last'.entry)
              /\ fs'[DbFile] = fs[DbFile]
              /\ server'.cases = server.cases
              /\ \A n \in Files \ {last'.channel} : fs'[n] = fs[n]]_vars

----------------------------------------------------------------------------
\* The HTTP service, continued: claims C17, C20 under SpecHttp

\* C17: a case that is created gets a case id under which nothing is
\* stored yet, so creating a case never overwrites a stored case.
C17_FreshCaseId ==
    [][(/\ ~EnvStep
        /\ last'.op = "create_case"
        /\ last'.status = 200
        /\ last'.saved_ok)
       => StoredDoc(backend, fs, server, last'.saved_as) = NoDoc]_vars

\* C20: a delete answers 501 for a stored case and 404 for an unknown id
\* (as far as the store can be read), never success, and leaves the stored
\* cases as they were.
C20_DeleteNotImplemented ==
    [][(~EnvStep /\ last'.op = "delete_case") =>
          LET doc == StoredDoc(backend, fs, server, last'.id)
          IN  /\ last'.status \in {404, 501}
              /\ (doc # NoDoc /\ CanRead) => last'.status = 501
              /\ doc = NoDoc => last'.status = 404
              /\ fs' = fs
              /\ server'.cases = server.cases
              /\ saved' = saved]_vars

\* a delete of a stored case has answered 501 and the case is still there
C20_Witness ==
    /\ last.op = "delete_case"
    /\ last.status = 501
    /\ StoredDoc(backend, fs, server, last.id) # NoDoc
    /\ \E id \in AllIds : StoredDoc(backend, fs, server, id) = NoDoc

----------------------------------------------------------------------------
\* The command line session, continued: claims C18, C19 under Spec

\* every name a prompt of the session can carry
AllNames == ElementNames \cup {PivotElementName(n) : n \in PivotNames}

\* C18: recording a piece of information for a registered element sets
\* record[direction_info][key] = value and nothing else: the path, the
\* other records, the other direction and the other fields of the record
\* stay; for a name that is not registered it raises and changes nothing.
C18_RecordInfoFrame ==
    [][/\ (~EnvStep /\ last'.op = "record_info") =>
              LET name == last'.name
                  field == last'.direction \o "_info"
                  old == Registry
                  new == Registry'
              IN  /\ Path' = Path
                  /\ cli'.analysis.initial_detection
                         = cli.analysis.initial_detection
                  /\ DOMAIN new = DOMAIN old
                  /\ \A other \in DOMAIN old \ {name} :
                         new[other] = old[other]
                  /\ DOMAIN new[name] = DOMAIN old[name]
                  /\ new[name][field]
                         = DictSet(old[name][field], last'.key, last'.value)
                  /\ \A f \in DOMAIN old[name] \ {field} :
                         new[name][f] = old[name][f]
       /\ cli.pc # "none" =>
              \A name \in AllNames \ DOMAIN Registry,
                 direction \in {"source", "destination"} :
                  LET r == collect_element_info(cli.analysis, name,
                                                direction, "vlan", "10")
                  IN  r.raised = "KeyError" /\ r.analysis = cli.analysis]_vars

\* destination information has been recorded for an element that has
\* source information, on a path with another element
C18_Witness ==
    /\ last.op = "record_info"
    /\ last.direction = "destination"
    /\ Registry[last.name].source_info # EmptyDict
    /\ Registry[last.name].destination_info # EmptyDict
    /\ Cardinality(DOMAIN Registry) >= 2

\* the number typed is one of the points 1..N+1 of a path of length N
InRange(choice, path_sequence) ==
    IF IsInt(choice)
    THEN int(choice) \in 1..(Len(path_sequence) + 1)
    ELSE FALSE

\* C19: a point outside 1..N+1, or a text that is no number, is rejected:
\* it is never taken as the place of an element, and the rejection leaves
\* the registry, the path and the stored case as they were.
C19_InvalidPositionRejected ==
    [][/\ cli.pc = "menu" =>
              \A choice \in PositionInputs :
                  ~InRange(choice, Path) => ~ValidPoint(choice, cli.analysis)
       /\ (~EnvStep /\ last'.op = "add_element") =>
              last'.point \in 1..(Len(Path) + 1)
       /\ (~EnvStep /\ last'.op = "invalid_choice") =>
              /\ ~InRange(last'.choice, Path)
              /\ cli' = cli
              /\ fs' = fs
              /\ saved' = saved]_vars

\* a number past the last insertion point has been rejected on a case
\* that has an element on its path and is stored
C19_Witness ==
    /\ last.op = "invalid_choice"
    /\ last.choice = ToString(Len(Path) + 2)
    /\ Len(Path) >= 1
    /\ StoredDoc("json", fs, server, cli.case_id) # NoDoc
    /\ StoredDoc("json", fs, server, cli.case_id).path_sequence = Path

----------------------------------------------------------------------------
\* Backend selection (storage/factory.py).  The process environment holds
\* STORAGE_TYPE and MONGODB_URL; pymongo may or may not be installed; the
\* server may or may not answer the ping of initialize_database.

\* values given as force_backend (None: the default of the parameter)
ForceInputs == {PyNone, "", "json", "JSON", "mongo", "Mongo", "redis", "auto"}

\* values of STORAGE_TYPE in the environment (None: not set)
StorageTypeInputs == {PyNone, "auto", "json", "mongo", "MONGO", "redis"}

\* values of MONGODB_URL in the environment (None: not set)
UrlInputs == {PyNone, "", "mongodb://db:27017"}

\* str.lower()
lower(s) ==
    CASE s = "JSON" -> "json"
      [] s = "Mongo" -> "mongo"
      [] s = "MONGO" -> "mongo"
      [] OTHER -> s

\* the truth value of an Optional[str]: None and "" are false
Truthy(s) == s # PyNone /\ s # ""

\* os.getenv(name, default)
getenv(value, default) == IF value = PyNone THEN default ELSE value

\* _get_mongo_storage (factory.py:55-68): MongoStorageSync(url) and its
\* initialize_database(); ImportError without pymongo, ConnectionError for
\* every other failure
get_mongo_storage(srv, available) ==
    IF ~available
    THEN [backend |-> PyNone, mongo |-> MongoNew, raised |-> "ImportError"]
    ELSE LET i == MongoInitializeDatabase(MongoNew, srv)
         IN  IF i.raised
             THEN [backend |-> PyNone, mongo |-> MongoNew,
                   raised |-> "ConnectionError"]
             ELSE [backend |-> "mongo", mongo |-> i.mongo, raised |-> "none"]

JsonSelected == [backend |-> "json", mongo |-> MongoNew, raised |-> "none"]

\* get_storage_backend (factory.py:11-53)
get_storage_backend(force_backend, storage_type_env, mongodb_url, srv, available) ==
    IF Truthy(force_backend)
    THEN IF lower(force_backend) = "json"
         THEN JsonSelected
         ELSE IF lower(force_backend) = "mongo"
         THEN get_mongo_storage(srv, available)
         ELSE [backend |-> PyNone, mongo |-> MongoNew, raised |-> "ValueError"]
    ELSE LET storage_type == lower(getenv(storage_type_env, "auto"))
         IN  IF storage_type = "mongo"
                \/ (storage_type = "auto" /\ Truthy(mongodb_url))
             THEN LET r == get_mongo_storage(srv, available)
                  IN  IF r.raised # "none" THEN JsonSelected ELSE r
             ELSE JsonSelected

\* no storage object yet; the server is up or down when the process starts
InitFactory ==
    /\ backend = PyNone
    /\ fs = [n \in Files |-> Absent]
    /\ mongo = MongoNew
    /\ server \in {ServerNew, [ServerNew EXCEPT !.up = FALSE]}
    /\ now = 0
    /\ cli = CliIdle
    /\ last = [op |-> "none"]
    /\ saved = [i \in AllIds |-> NoDoc]
    /\ threads = NoThreads
    /\ callers = NoCallers

\* the effect of a selection on the process
FactoryDone(r, op, force_backend, storage_type_env, mongodb_url, available) ==
    /\ backend' = r.backend
    /\ mongo' = r.mongo
    /\ last' = [op |-> op, force_backend |-> force_backend,
                storage_type |-> storage_type_env,
                mongodb_url |-> mongodb_url, available |-> available,
                up |-> server.up, raised |-> r.raised]
    /\ UNCHANGED <<fs, server, now, cli, saved, threads, callers>>

\* a process starts and calls get_storage_backend(force_backend)
FactoryGetStorageBackend ==
    \E force_backend \in ForceInputs \ {PyNone},
       storage_type_env \in StorageTypeInputs, mongodb_url \in UrlInputs,
       available \in BOOLEAN :
        FactoryDone(get_storage_backend(force_backend, storage_type_env,
                                        mongodb_url, server, available),
                    "get_storage_backend", force_backend, storage_type_env,
                    mongodb_url, available)

\* a process starts and calls create_storage() (factory.py:95-97,
\* api.py:82): get_storage_backend() with no argument
FactoryCreateStorage ==
    \E storage_type_env \in StorageTypeInputs, mongodb_url \in UrlInputs,
       available \in BOOLEAN :
        FactoryDone(get_storage_backend(PyNone, storage_type_env,
                                        mongodb_url, server, available),
                    "create_storage", PyNone, storage_type_env,
                    mongodb_url, available)

\* the environment: the server goes down or comes back between two starts
FactoryServerToggle ==
    /\ server' = [server EXCEPT !.up = ~@]
    /\ UNCHANGED <<backend, fs, mongo, now, cli, last, saved,
                   threads, callers>>

NextFactory ==
    \/ FactoryGetStorageBackend
    \/ FactoryCreateStorage
    \/ FactoryServerToggle

SpecFactory == InitFactory /\ [][NextFactory]_vars

\* a selection has just been made
Selected == last.op \in {"get_storage_backend", "create_storage"}

\* the override in force: force_backend when it is given, else the
\* STORAGE_TYPE setting unless it is unset or "auto"
Override ==
    IF Truthy(last.force_backend) THEN last.force_backend
    ELSE IF last.storage_type \notin {PyNone, "auto"} THEN last.storage_type
    ELSE PyNone

\* the indexed backend can be set up: the driver is there, the server answers
CanConnect == last.available /\ last.up

\* C21: an override "json" selects the flat file, "mongo" the indexed
\* backend, any other override value raises the unrecognized-backend error,
\* whether the override came as force_backend or from STORAGE_TYPE; with no
\* override a connection string selects the indexed backend and its absence
\* the flat file.
C21_Selection ==
    Selected =>
        IF Override # PyNone
        THEN CASE lower(Override) = "json" ->
                      backend = "json" /\ last.raised = "none"
               [] lower(Override) = "mongo" ->
                      CanConnect => backend = "mongo" /\ last.raised = "none"
               [] OTHER -> last.raised = "ValueError"
        ELSE IF Truthy(last.mongodb_url)
             THEN CanConnect => backend = "mongo" /\ last.raised = "none"
             ELSE backend = "json" /\ last.raised = "none"

\* the selection fell back: the indexed backend was asked for, could not be
\* set up, and the flat file was returned
AskedForMongo ==
    \/ Override # PyNone /\ lower(Override) = "mongo"
    \/ Override = PyNone /\ Truthy(last.mongodb_url)

\* C22: the flat file is returned in place of an indexed backend that
\* cannot be set up only when there is no override and a connection string
\* is configured; with the indexed backend forced the failure is raised and
\* no backend is returned.
C22_FallbackOnlyOnAutoDetect ==
    (Selected /\ AskedForMongo /\ ~CanConnect) =>
        IF Override = PyNone
        THEN backend = "json" /\ last.raised = "none"
        ELSE backend = PyNone
             /\ last.raised \in {"ConnectionError", "ImportError"}

----------------------------------------------------------------------------
\* The HTTP service, continued: claim C23 under SpecHttp

\* the case ids under which a document is stored
StoredIds(b, f, srv) == {id \in AllIds : StoredDoc(b, f, srv, id) # NoDoc}

\* the names of the elements of a request, in order
RequestNames(network_elements) ==
    [i \in 1..Len(network_elements) |-> network_elements[i].name]

\* C23: an update of the stored case X that is answered with success and
\* whose save succeeded leaves under X a document with X's initial
\* detection and X's path followed by the added elements, and stores no
\* case id that was not stored before.
C23_UpdateWritesBack ==
    [][(/\ ~EnvStep
        /\ last'.op \in {"update_case", "add_network_element"}
        /\ last'.status = 200
        /\ last'.saved_ok)
       => LET old == StoredDoc(backend, fs, server, last'.id)
              new == StoredDoc(backend, fs', server', last'.id)
          IN  /\ new # NoDoc
              /\ new.initial_detection = old.initial_detection
              /\ new.path_sequence =
                     old.path_sequence
                         \o RequestNames(last'.request.network_elements)
              /\ StoredIds(backend, fs', server')
                     \subseteq StoredIds(backend, fs, server)]_vars

----------------------------------------------------------------------------
\* Immutable fields of a stored case: claim C24 under Spec, C25 under SpecHttp

\* C24: the timestamp of a stored case never changes: whatever a session
\* does (create, continue, add, record), a case stored before and after the
\* step has the same timestamp.
C24_TimestampImmutable ==
    [][\A id \in AllIds :
          LET old == StoredDoc(backend, fs, server, id)
              new == StoredDoc(backend, fs', server', id)
          IN  (old # NoDoc /\ new # NoDoc) => new.timestamp = old.timestamp]_vars

\* C25: once a stored case has a non-empty initial detection, no request
\* changes the initial detection stored under its case id.
C25_DetectionImmutable ==
    [][\A id \in AllIds :
          LET old == StoredDoc(backend, fs, server, id)
              new == StoredDoc(backend, fs', server', id)
          IN  (/\ old # NoDoc
               /\ old.initial_detection # EmptyDict
               /\ new # NoDoc)
              => new.initial_detection = old.initial_detection]_vars

----------------------------------------------------------------------------
\* JsonStorage.save_case under two writers (json_storage.py:41-59).  The
\* call holds no lock: it reads the whole document (json.load), changes its
\* own copy, opens the file for writing, which truncates it, and dumps the
\* copy.  Each of these is a step of its own, and the two writers (threads
\* of the HTTP service, or two processes) take theirs in any order.

Savers == {1, 2}

SaverIdle == [pc |-> "idle", case_id |-> "", case_data |-> EmptyDict,
              db_data |-> EmptyDict, ret |-> FALSE]

InitSavers ==
    /\ backend = "json"
    /\ fs = [n \in Files |-> Absent]
    /\ mongo = MongoNew
    /\ server = ServerNew
    /\ now = 0
    /\ cli = CliIdle
    /\ last = [op |-> "none"]
    /\ saved = [i \in AllIds |-> NoDoc]
    /\ threads = NoThreads
    /\ callers = [p \in Savers |-> SaverIdle]

\* initialize_database() of a process that starts
SaverInitialize ==
    /\ \A p \in Savers : callers[p].pc = "idle"
    /\ LET r == JsonInitializeDatabase(fs, now, "none")
       IN  /\ fs' = r.fs
           /\ last' = [op |-> "initialize_database", raised |-> r.raised]
    /\ UNCHANGED <<backend, mongo, server, now, cli, saved, threads, callers>>

\* save_case(case_id, case_data), lines 45-46: the document is read; a file
\* that cannot be read or parsed ends the call with False
SaverRead(p) ==
    /\ callers[p].pc = "idle"
    /\ \E case_id \in StoreIds, case_data \in StoreDocs :
           /\ callers' = [callers EXCEPT ![p] =
                  IF json_loadable(fs[DbFile])
                  THEN [pc |-> "read", case_id |-> case_id,
                        case_data |-> case_data,
                        db_data |-> json_load(fs[DbFile]), ret |-> FALSE]
                  ELSE [pc |-> "returned", case_id |-> case_id,
                        case_data |-> case_data, db_data |-> EmptyDict,
                        ret |-> FALSE]]
           /\ last' = [op |-> "read", saver |-> p, id |-> case_id]
    /\ UNCHANGED <<backend, fs, mongo, server, now, cli, saved, threads>>

\* lines 49 and 52: the copy gets the case, the file is opened with 'w'
SaverOpen(p) ==
    /\ callers[p].pc = "read"
    /\ callers' = [callers EXCEPT ![p] =
           [@ EXCEPT !.pc = "opened",
                     !.db_data.cases =
                         DictSet(@, callers[p].case_id,
                                 callers[p].case_data)]]
    /\ fs' = [fs EXCEPT ![DbFile] = Partial]
    /\ last' = [op |-> "open_w", saver |-> p, id |-> callers[p].case_id]
    /\ UNCHANGED <<backend, mongo, server, now, cli, saved, threads>>

\* lines 53-55: the copy is dumped from the start of the file and True is
\* returned.  The text is written in one piece when the file is closed.
SaverDump(p) ==
    /\ callers[p].pc = "opened"
    /\ fs' = [fs EXCEPT ![DbFile] = json_dump(callers[p].db_data)]
    /\ callers' = [callers EXCEPT ![p] = [@ EXCEPT !.pc = "returned",
                                                   !.ret = TRUE]]
    /\ last' = [op |-> "dump", saver |-> p, id |-> callers[p].case_id]
    /\ UNCHANGED <<backend, mongo, server, now, cli, saved, threads>>

NextSavers ==
    \/ SaverInitialize
    \/ \E p \in Savers : SaverRead(p)
    \/ \E p \in Savers : SaverOpen(p)
    \/ \E p \in Savers : SaverDump(p)

SpecSavers == InitSavers /\ [][NextSavers]_vars

\* both writers have returned True from saves of two different case ids
BothReturnedTrue ==
    /\ \A p \in Savers : callers[p].pc = "returned" /\ callers[p].ret
    /\ callers[1].case_id # callers[2].case_id

\* C26: when two save_case calls for different case ids run together on
\* the flat file and both return True, both cases are stored, each with the
\* document its caller saved.
C26_BothSavesTakeEffect ==
    BothReturnedTrue =>
        \A p \in Savers :
            StoredDoc(backend, fs, server, callers[p].case_id)
                = callers[p].case_data

----------------------------------------------------------------------------
\* The command line session, continued: claim C27 under Spec

\* C27: whenever the session is at the enrichment menu prompt, the document
\* stored under the session's case id has the network elements and the path
\* of the case in memory.
C27_PersistedAtPrompt ==
    cli.pc = "menu" =>
        LET doc == StoredDoc(backend, fs, server, cli.case_id)
        IN  /\ doc # NoDoc
            /\ doc.network_elements = cli.analysis.network_elements
            /\ doc.path_sequence = cli.analysis.path_sequence

----------------------------------------------------------------------------
\* Storage contract, continued: claim C28 under SpecStorage

\* the metadata of the flat-file database, Missing when it cannot be read
Metadata(f) ==
    IF json_loadable(f[DbFile])
    THEN Get(json_load(f[DbFile]), "metadata", Missing)
    ELSE Missing

\* C28: on the flat file a save_case(id, D) leaves the stored document of
\* every other case id and the database metadata as they were, and
\* load_case, list_cases and case_exists leave the file as it was.
C28_SaveFrame ==
    [][(~EnvStep /\ backend = "json") =>
          /\ last'.op = "save_case" =>
                 /\ \A id \in AllIds \ {last'.id} :
                        StoredDoc(backend, fs', server', id)
                            = StoredDoc(backend, fs, server, id)
                 /\ Metadata(fs') = Metadata(fs)
          /\ last'.op \in {"load_case", "list_cases", "case_exists"} =>
                 fs' = fs]_vars

----------------------------------------------------------------------------
\* MongoStorageSync under threads, continued: claims C29, C30

\* a data operation has returned from its client call (not from a failed
\* connection setup)
ReturnedFromCall == last.op = "return" /\ "client" \in DOMAIN last

\* initialize_database has failed: the operation that asked for the
\* connection has returned without a client call
ReturnedFromFailedSetup == last.op = "return" /\ "client" \notin DOMAIN last

\* C29: whenever no thread holds the lock, _initialized implies that the
\* client is set; a failed initialization leaves _initialized false and no
\* client; and a data operation whose client call finds the client closed
\* and gets no answer returns its failure value, and every data operation
\* returns a value of its result type (a truth value, a document, a list of
\* ids), never an exception.
C29_FlagImpliesClient ==
    /\ (threads.lock = 0 /\ mongo.initialized) => mongo.client
    /\ ReturnedFromFailedSetup => ~mongo.initialized /\ ~mongo.client
    /\ (ReturnedFromCall /\ ~last.client /\ ~last.answered) =>
           last.ret = Failed(last.name)
    /\ (last.op = "return" /\ last.name # "initialize_database") =>
           CASE last.name = "load_case" ->
                    last.ret = EmptyDict \/ "path_sequence" \in DOMAIN last.ret
             [] last.name = "list_cases" -> last.ret \subseteq AllIds
             [] OTHER -> last.ret \in BOOLEAN

\* a save_case that had seen _initialized set, waited for the lock while
\* close() ran, and then met the closed client: it has returned False
C29_Witness ==
    /\ ReturnedFromCall
    /\ last.name = "save_case"
    /\ ~last.client
    /\ ~last.answered
    /\ last.ret = FALSE
    /\ server.up
    /\ threads.closes = 1
    /\ ~mongo.initialized

\* Finitely many callers and a fair scheduler: MaxCalls calls are made in
\* all, and a thread that can take its next step does not wait forever
\* (callers are not obliged to call, the server may go up and down at will).
InitCalls ==
    /\ backend = "mongo"
    /\ fs = [n \in Files |-> Absent]
    /\ mongo = MongoNew
    /\ server = ServerNew
    /\ now = 0
    /\ cli = CliIdle
    /\ last = [op |-> "none"]
    /\ saved = [i \in AllIds |-> NoDoc]
    /\ threads = [lock |-> 0, th |-> [t \in Threads |-> ThreadIdle],
                  setups |-> 0, closes |-> 0, budget |-> MaxCalls]
    /\ callers = NoCallers

\* the next statement of thread t inside an operation it has started
ThStep(t) ==
    \/ ThCheck(t)
    \/ ThInitEnter(t)
    \/ ThInitCall(t)
    \/ ThOpEnter(t)
    \/ ThOpCall(t)
    \/ ThCloseEnter(t)
    \/ ThCloseCall(t)

SpecThreadsFair ==
    /\ InitCalls
    /\ [][NextThreads]_vars
    /\ \A t \in Threads : WF_vars(ThStep(t))

\* the positions at which a thread waits for the lock
AtLock == {"init_lock", "op_lock", "close_lock"}

\* no thread asks for the lock while it holds it
NoReentry == \A t \in Threads : threads.th[t].pc \in AtLock => threads.lock # t

\* the lock is held only by a thread inside its `with` block, which will
\* leave it
HolderInBlock ==
    threads.lock # 0 => threads.th[threads.lock].pc \in InCall

\* C30: no operation asks for the lock while its thread holds it, the lock
\* is never left held by a thread that has left its block (by return or by
\* an exception), and every operation that was started returns.
C30_EveryOperationReturns ==
    /\ [](NoReentry /\ HolderInBlock)
    /\ \A t \in Threads :
           (threads.th[t].pc # "idle") ~> (threads.th[t].pc = "idle")

\* a connection setup has failed and released the lock while the other
\* thread waits for it
C30_Witness ==
    /\ ReturnedFromFailedSetup
    /\ threads.lock = 0
    /\ \E t \in Threads : threads.th[t].pc \in AtLock
    /\ "budget" \in DOMAIN threads

====
